---- MODULE Spec2Model ----
(***************************************************************************)
(* Registration, invitation and bearer-token logic of backend/users.py.   *)
(*                                                                         *)
(* The event loop runs one coroutine at a time and switches only at an     *)
(* await, so every action below is the code between two awaits.            *)
(***************************************************************************)
EXTENDS Naturals, Integers, Sequences, FiniteSets, TLC

\* ------------------------------------------------------------------ bounds
\* Number of registration requests in flight (ids are given in order of arrival).
NumAttempts == 2

Attempts == 1..NumAttempts

\* Accounts in the user store of the token specification.
NumAccounts == 2

\* The clock of the token specification advances NumTicks times, by half a
\* bearer-token lifetime each time.
NumTicks == 3

\* Bearer tokens issued in one behaviour.
MaxIssued == 2

\* Reset and verification tokens handed to the email sender in one behaviour.
MaxMailed == 1

Accounts == 1..NumAccounts

\* ------------------------------------------------------------------ constants
\* line 23: the one secret that signs bearer, reset and verification tokens
PASSWORD_SECRET == "PASSWORD_SECRET"

\* line 25: int(os.environ.get("JWT_TOKEN_LIFETIME_MINUTES", 60)) * 60
JWT_TOKEN_LIFETIME == 3600

\* JWTAuthentication.token_audience, the "aud" claim of a bearer token
AuthAudience == "fastapi-users:auth"

TickLength == JWT_TOKEN_LIFETIME \div 2

\* lines 81-86: UserManager keeps BaseUserManager's lifetime of reset and
\* verification tokens, in seconds
PurposeTokenLifetime == 3600

Purposes == {"email_verify", "password_reset"}

\* ------------------------------------------------------------------ inputs
\* Python's None for an Optional[str] field.
None == "<None>"

Emails == {"a@example.com", "b@example.com"}
Names == {"", "Al"}
ArchiveNames == {"", "Lab"}

\* Invite tokens held by the ledger when the service starts, with their scope.
InviteTokens == {"t1", "t2"}
InviteScope == [t1 |-> "new_account", t2 |-> "existing_account_link"]

\* The expiry of an invite is optional: t1 has one, t2 has none.
InviteExpires == [t1 |-> TRUE, t2 |-> FALSE]

\* inviteToken values a client can send: absent, empty, or a token string.
TokenInputs == {None, ""} \cup InviteTokens

UserCreate ==
    [email : Emails, name : Names, inviteToken : TokenInputs,
     newArchive : BOOLEAN, newArchiveName : ArchiveNames]

\* Requests of the concurrent specification: the fields two attempts can
\* collide on (email, invite token) and the archive flag.
Requests == {u \in UserCreate : u.name = "" /\ u.newArchiveName = ""}

NoRequest == [email |-> "", name |-> "", inviteToken |-> None,
              newArchive |-> FALSE, newArchiveName |-> ""]

NoUser == [email |-> "", name |-> "", is_active |-> FALSE, is_verified |-> FALSE]

NoToken == [sub |-> 0, aud |-> "", exp |-> 0, sig |-> ""]

NoResponse == [op |-> "none", presented |-> NoToken, status |-> "none", token |-> NoToken]

\* ------------------------------------------------------------------ state
VARIABLES
    registration_enabled,  \* UserManager.registration_enabled
    users,                 \* user store: account id -> UserDB record
    invites,               \* invite ledger: token -> "pending" | "expired" | "removed"
    pc,                    \* position of each registration attempt
    request,               \* the UserCreate as the client sent it
    user_create,           \* the UserCreate object after line 104
    invite_found,          \* what get_valid_invite answered at line 110
    result,                \* what the caller of create() got
    returned,              \* the account returned by create()
    archive_calls,         \* archive names passed to create_new_archive_for_user
    archive_result,        \* outcome of the provisioning call
    fulfil,                \* outcome of handle_new_user_invite
    log,                   \* exceptions printed by the except branch
    verify_task,           \* the task made by asyncio.create_task(request_verify)
    now,                   \* the clock, in seconds
    issued,                \* bearer tokens the service has signed
    response,              \* the answer to the last token request
    mailed,                \* tokens handed to the email sender, with the kind of mail
    invited,               \* invites made through POST /users/invite
    reset_done             \* accounts whose password was replaced by a reset

\* per-attempt state of create() and on_after_register_custom()
attempt_vars == <<pc, request, user_create, invite_found, result, returned,
                  archive_calls, archive_result, fulfil, log, verify_task>>

\* state of the token operations
mail_vars == <<mailed, invited, reset_done>>

auth_vars == <<now, issued, response, mail_vars>>

vars == <<registration_enabled, users, invites, attempt_vars, auth_vars>>

\* ------------------------------------------------------------------ helpers
\* Python truthiness of an Optional[str].
Truthy(s) == s # None /\ s # ""

\* line 104, with no default: the name is kept as sent
DefaultName_kept(u) == u.name

\* line 104: user.name = user.name or user.email
DefaultName(u) == IF Truthy(u.name) THEN u.name ELSE u.email

\* line 107 with an identity test in place of the truth test
InviteRequired_isNone(u) == ~registration_enabled /\ u.inviteToken = None

\* lines 107-108 left out: no request is refused for want of an invite
InviteRequired_never(u) == FALSE

\* line 107: not self.registration_enabled and not user.inviteToken
InviteRequired(u) == ~registration_enabled /\ ~Truthy(u.inviteToken)

\* line 110 with the lookup made only while registration is closed
ChecksInvite_closedOnly(u) == ~registration_enabled /\ Truthy(u.inviteToken)

\* line 110: the invite is looked up exactly when a token was supplied
ChecksInvite(u) == Truthy(u.inviteToken)

\* InviteLedger.get_valid_invite: the record, or None when the token is
\* missing, expired or not scoped to registration.  Does not consume.
get_valid_invite(token) ==
    IF token \in InviteTokens /\ invites[token] = "pending"
         /\ InviteScope[token] = "new_account"
    THEN token ELSE None

\* lines 137-139: newArchiveName or f"{user.name or user.email}'s Archive"
ArchiveName(u, user) ==
    IF Truthy(u.newArchiveName) THEN u.newArchiveName
    ELSE (IF Truthy(user.name) THEN user.name ELSE user.email) \o "'s Archive"

\* UserStore.create uniqueness check on the login email.
EmailTaken(email) == \E id \in DOMAIN users : users[id].email = email

\* create() ends: a return of the account, or an exception to the caller.
Finish(p, kind) ==
    /\ pc' = [pc EXCEPT ![p] = IF kind = "ok" THEN "done" ELSE "failed"]
    /\ result' = [result EXCEPT ![p] = kind]

\* lines 134 and 147 with the archive step left out
AfterCreate_skipArchive(u) == IF Truthy(u.inviteToken) THEN "invite" ELSE "email"

\* lines 134 and 147: the first post-registration call the attempt makes.
AfterCreate(u) == IF u.newArchive THEN "archive" ELSE
                  IF Truthy(u.inviteToken) THEN "invite" ELSE "email"

\* line 147 with the email task chosen whatever the request holds
AfterArchive_email(u) == "email"

\* line 147: invite fulfilment when a token was supplied, else the email task.
AfterArchive(u) == IF Truthy(u.inviteToken) THEN "invite" ELSE "email"

\* ------------------------------------------------------------------ Init
Init ==
    /\ registration_enabled \in BOOLEAN
    /\ users = <<>>
    /\ invites = [t \in InviteTokens |-> "pending"]
    /\ pc = [p \in Attempts |-> "idle"]
    /\ request = [p \in Attempts |-> NoRequest]
    /\ user_create = [p \in Attempts |-> NoRequest]
    /\ invite_found = [p \in Attempts |-> "unchecked"]
    /\ result = [p \in Attempts |-> "none"]
    /\ returned = [p \in Attempts |-> NoUser]
    /\ archive_calls = [p \in Attempts |-> <<>>]
    /\ archive_result = [p \in Attempts |-> "none"]
    /\ fulfil = [p \in Attempts |-> "none"]
    /\ log = [p \in Attempts |-> <<>>]
    /\ verify_task = [p \in Attempts |-> "none"]
    /\ now = 0 /\ issued = {} /\ response = NoResponse
    /\ mailed = {} /\ invited = {} /\ reset_done = {}

\* ------------------------------------------------------------------ create()
\* lines 100-110: name default, the invite-required check, up to the await of
\* get_valid_invite (or of super().create when no token was supplied).
Start(p, req) ==
    /\ pc[p] = "idle"
    /\ \A q \in Attempts : q < p => pc[q] # "idle"
    /\ request' = [request EXCEPT ![p] = req]
    /\ LET u == [req EXCEPT !.name = DefaultName(req)] IN
        /\ user_create' = [user_create EXCEPT ![p] = u]
        /\ IF InviteRequired(u)
           THEN Finish(p, "InviteRequired")
           ELSE /\ pc' = [pc EXCEPT ![p] = IF ChecksInvite(u) THEN "validate" ELSE "create"]
                /\ UNCHANGED result
    /\ UNCHANGED <<auth_vars, registration_enabled, users, invites, invite_found, returned,
                   archive_calls, archive_result, fulfil, log, verify_task>>

\* lines 110-113: get_valid_invite answers; an unresolved token is a 400.
Validate(p) ==
    /\ pc[p] = "validate"
    /\ LET found == get_valid_invite(user_create[p].inviteToken) IN
        /\ invite_found' = [invite_found EXCEPT
                              ![p] = IF found = None THEN "invalid" ELSE "valid"]
        /\ IF found = None
           THEN Finish(p, "InvalidInvite")
           ELSE pc' = [pc EXCEPT ![p] = "create"] /\ UNCHANGED result
    /\ UNCHANGED <<auth_vars, registration_enabled, users, invites, request, user_create, returned,
                   archive_calls, archive_result, fulfil, log, verify_task>>

\* line 115 with the invite burnt before the account is made
OnDuplicate_burnsInvite(p) ==
    /\ Finish(p, "DuplicateEmail")
    /\ invites' = [t \in InviteTokens |->
                     IF t = user_create[p].inviteToken THEN "removed" ELSE invites[t]]
    /\ UNCHANGED users

\* line 115: UserAlreadyExists leaves create() before any post-registration step.
OnDuplicate(p) ==
    /\ Finish(p, "DuplicateEmail")
    /\ UNCHANGED <<users, invites>>

\* line 115: super().create inserts the account, or raises UserAlreadyExists.
Create(p) ==
    /\ pc[p] = "create"
    /\ LET u == user_create[p] IN
       IF EmailTaken(u.email)
       THEN OnDuplicate(p)
       ELSE /\ users' = users @@ (p :> [email |-> u.email, name |-> u.name,
                                        is_active |-> TRUE, is_verified |-> FALSE])
            /\ pc' = [pc EXCEPT ![p] = AfterCreate(u)]
            /\ UNCHANGED <<result, invites>>
    /\ UNCHANGED <<auth_vars, registration_enabled, request, user_create, invite_found, returned,
                   archive_calls, archive_result, fulfil, log, verify_task>>

\* lines 141-145 with the account removed when provisioning fails
ArchiveFailed_rollback(p) ==
    /\ Finish(p, "ServerError")
    /\ users' = [id \in DOMAIN users \ {p} |-> users[id]]
    /\ UNCHANGED <<fulfil, log, verify_task, returned>>

\* lines 141-145: create_new_archive_for_user is awaited outside any try, so an
\* exception of the collaborator leaves on_after_register_custom and create().
ArchiveFailed(p) ==
    /\ Finish(p, "ServerError")
    /\ UNCHANGED <<users, fulfil, log, verify_task, returned>>

\* lines 134-145: provision the archive under the chosen name.
CreateArchive(p, outcome) ==
    /\ pc[p] = "archive"
    /\ archive_calls' = [archive_calls EXCEPT
                           ![p] = Append(@, ArchiveName(user_create[p], users[p]))]
    /\ archive_result' = [archive_result EXCEPT ![p] = outcome]
    /\ IF outcome = "ok"
       THEN /\ pc' = [pc EXCEPT ![p] = AfterArchive(user_create[p])]
            /\ UNCHANGED <<users, fulfil, log, verify_task, returned, result>>
       ELSE ArchiveFailed(p)
    /\ UNCHANGED <<auth_vars, registration_enabled, invites, request, user_create, invite_found>>

\* handle_new_user_invite with a read of the ledger that is no check-and-delete
handle_new_user_invite_stale(token) ==
    (IF token \in InviteTokens /\ invites[token] # "expired"
     THEN {"ok"} ELSE {"InvalidInvite"}) \cup {"Timeout"}

\* ArchiveService.handle_new_user_invite: the answers the collaborator can give.
\* It consumes the invite with one atomic check-and-delete of the ledger; a
\* token that is no longer pending is an InvalidInvite (an HTTPException); the
\* call can also end in an exception that is no HTTPException (a timeout).
handle_new_user_invite(token) ==
    (IF get_valid_invite(token) # None THEN {"ok"} ELSE {"InvalidInvite"}) \cup {"Timeout"}

\* lines 147-153 without the except clause
Swallowed_never(outcome) == FALSE

\* lines 152-153: only an HTTPException is caught (and printed)
Swallowed(outcome) == outcome = "InvalidInvite"

\* lines 147-153: fulfil the invite; a caught failure is printed and the attempt
\* goes on to line 156, any other exception leaves create().
HandleInvite(p, outcome) ==
    /\ pc[p] = "invite"
    /\ LET token == user_create[p].inviteToken IN
        /\ outcome \in handle_new_user_invite(token)
        /\ fulfil' = [fulfil EXCEPT ![p] = outcome]
        /\ invites' = IF outcome = "ok" THEN [invites EXCEPT ![token] = "removed"]
                      ELSE invites
    /\ IF outcome = "ok"
       THEN pc' = [pc EXCEPT ![p] = "verified"] /\ UNCHANGED <<result, log>>
       ELSE IF Swallowed(outcome)
       THEN /\ pc' = [pc EXCEPT ![p] = "verified"]
            /\ log' = [log EXCEPT ![p] = Append(@, outcome)]
            /\ UNCHANGED result
       ELSE Finish(p, "ServerError") /\ UNCHANGED log
    /\ UNCHANGED <<auth_vars, registration_enabled, users, request, user_create, invite_found,
                   returned, archive_calls, archive_result, verify_task>>

\* line 156 with the flag set only after a fulfilment that succeeded
VerifiedFlag_onSuccess(p) == fulfil[p] = "ok"

\* line 156: the flag written for an invited user
VerifiedFlag(p) == TRUE

\* lines 156 and 117: mark the invited account verified and return it.
MarkVerified(p) ==
    /\ pc[p] = "verified"
    /\ users' = [users EXCEPT ![p].is_verified = VerifiedFlag(p)]
    /\ returned' = [returned EXCEPT ![p] = users'[p]]
    /\ Finish(p, "ok")
    /\ UNCHANGED <<auth_vars, registration_enabled, invites, request, user_create, invite_found,
                   archive_calls, archive_result, fulfil, log, verify_task>>

\* lines 158-159 with request_verify awaited: create() returns when the email
\* has been sent, and a failure to send leaves create() as an exception.
ScheduleVerify_awaited(p) ==
    /\ pc[p] = "email"
    /\ \E outcome \in {"sent", "failed"} :
          /\ verify_task' = [verify_task EXCEPT ![p] = outcome]
          /\ IF outcome = "sent"
             THEN returned' = [returned EXCEPT ![p] = users[p]] /\ Finish(p, "ok")
             ELSE UNCHANGED returned /\ Finish(p, "ServerError")
    /\ UNCHANGED <<auth_vars, registration_enabled, users, invites, request, user_create,
                   invite_found, archive_calls, archive_result, fulfil, log>>

\* lines 158-159 and 117: schedule request_verify as a task and return at once.
ScheduleVerify(p) ==
    /\ pc[p] = "email"
    /\ verify_task' = [verify_task EXCEPT ![p] = "scheduled"]
    /\ returned' = [returned EXCEPT ![p] = users[p]]
    /\ Finish(p, "ok")
    /\ UNCHANGED <<auth_vars, registration_enabled, users, invites, request, user_create,
                   invite_found, archive_calls, archive_result, fulfil, log>>

\* lines 169-174: the task runs request_verify, which hands the token to the
\* email sender; the send can fail, and nobody awaits the task.
RequestVerify(p, outcome) ==
    /\ verify_task[p] = "scheduled"
    /\ verify_task' = [verify_task EXCEPT ![p] = outcome]
    /\ UNCHANGED <<auth_vars, registration_enabled, users, invites, pc, request, user_create,
                   invite_found, result, returned, archive_calls, archive_result,
                   fulfil, log>>

\* An invite reaches its optional expiry.
Expire(t) ==
    /\ InviteExpires[t]
    /\ invites[t] = "pending"
    /\ invites' = [invites EXCEPT ![t] = "expired"]
    /\ UNCHANGED <<auth_vars, registration_enabled, users, attempt_vars>>

\* Concurrent registration attempts.
Next ==
    \/ \E p \in Attempts, req \in Requests : Start(p, req)
    \/ \E p \in Attempts : Validate(p)
    \/ \E p \in Attempts : Create(p)
    \/ \E p \in Attempts, o \in {"ok", "error"} : CreateArchive(p, o)
    \/ \E p \in Attempts, o \in {"ok", "InvalidInvite", "Timeout"} : HandleInvite(p, o)
    \/ \E p \in Attempts : MarkVerified(p)
    \/ \E p \in Attempts : ScheduleVerify(p)
    \/ \E p \in Attempts, o \in {"sent", "failed"} : RequestVerify(p, o)
    \/ \E t \in InviteTokens : Expire(t)

Spec == Init /\ [][Next]_vars

\* One registration attempt, over every request a client can send.
NextSingle ==
    \/ \E req \in UserCreate : Start(1, req)
    \/ Validate(1)
    \/ Create(1)
    \/ \E o \in {"ok", "error"} : CreateArchive(1, o)
    \/ \E o \in {"ok", "InvalidInvite", "Timeout"} : HandleInvite(1, o)
    \/ MarkVerified(1)
    \/ ScheduleVerify(1)
    \/ \E o \in {"sent", "failed"} : RequestVerify(1, o)
    \/ \E t \in InviteTokens : Expire(t)

SpecSingle == Init /\ [][NextSingle]_vars

\* ------------------------------------------------------------------ bearer tokens
\* The user store of the token specification: NumAccounts accounts, each active
\* or deactivated.
AccountEmail(id) == "user" \o ToString(id) \o "@example.com"

AuthInit ==
    /\ registration_enabled = FALSE
    /\ \E active \in [Accounts -> BOOLEAN] :
          users = [id \in Accounts |->
                     [email |-> AccountEmail(id), name |-> AccountEmail(id),
                      is_active |-> active[id], is_verified |-> TRUE]]
    /\ invites = [t \in InviteTokens |-> "pending"]
    /\ pc = [p \in Attempts |-> "idle"]
    /\ request = [p \in Attempts |-> NoRequest]
    /\ user_create = [p \in Attempts |-> NoRequest]
    /\ invite_found = [p \in Attempts |-> "unchecked"]
    /\ result = [p \in Attempts |-> "none"]
    /\ returned = [p \in Attempts |-> NoUser]
    /\ archive_calls = [p \in Attempts |-> <<>>]
    /\ archive_result = [p \in Attempts |-> "none"]
    /\ fulfil = [p \in Attempts |-> "none"]
    /\ log = [p \in Attempts |-> <<>>]
    /\ verify_task = [p \in Attempts |-> "none"]
    /\ now = 0 /\ issued = {} /\ response = NoResponse
    /\ mailed = {} /\ invited = {} /\ reset_done = {}

\* lines 193-197 with the lifetime written as the expiry instant
generate_jwt_absolute(sub, aud, lifetime) ==
    [sub |-> sub, aud |-> aud, exp |-> lifetime, sig |-> PASSWORD_SECRET]

\* lines 193-197: generate_jwt signs the claims with the secret, exp = now + lifetime.
generate_jwt(sub, aud, lifetime) ==
    [sub |-> sub, aud |-> aud, exp |-> now + lifetime, sig |-> PASSWORD_SECRET]

\* lines 193-197: decode_jwt accepts a token signed with the secret, made for
\* the audience and not expired.  At the very instant exp the answer depends on
\* the JWT library in use (at_exp).
decode_jwt(tok, aud, at_exp) ==
    /\ tok.sig = PASSWORD_SECRET
    /\ tok.aud = aud
    /\ (now < tok.exp \/ (now = tok.exp /\ at_exp))

\* lines 193-197: JWTAuthentication called with the credentials of a request:
\* the account the token names, or 0 when it does not decode or names none.
validate_bearer(tok, at_exp) ==
    IF decode_jwt(tok, AuthAudience, at_exp) /\ tok.sub \in DOMAIN users
    THEN tok.sub ELSE 0

\* line 210 with current_user() asked for any account, active or not
current_active_user_any(tok, at_exp) ==
    IF decode_jwt(tok, AuthAudience, at_exp) /\ tok.sub \in DOMAIN users
    THEN tok.sub ELSE 0

\* line 210: fastapi_users.current_user(active=True): the account the bearer
\* token names, or 0 (a 401) when the token does not decode, names no account
\* or names a deactivated one.
current_active_user(tok, at_exp) ==
    IF decode_jwt(tok, AuthAudience, at_exp) /\ tok.sub \in DOMAIN users
         /\ users[tok.sub].is_active
    THEN tok.sub ELSE 0

\* Tokens a client can present: the ones the service signed, and ones signed
\* with another key.
Forged == {[sub |-> a, aud |-> AuthAudience, exp |-> (NumTicks + 2) * TickLength,
            sig |-> "forged"] : a \in Accounts}

Presentable == issued \cup Forged

\* line 208: the login route of the auth router: a token for an active account
\* that gave its password, a 400 otherwise.
Login(id, password_ok) ==
    /\ Cardinality(issued) < MaxIssued
    /\ IF password_ok /\ users[id].is_active
       THEN LET tok == generate_jwt(id, AuthAudience, JWT_TOKEN_LIFETIME) IN
            /\ issued' = issued \cup {tok}
            /\ response' = [op |-> "login", presented |-> NoToken, status |-> "ok",
                            token |-> tok]
       ELSE /\ response' = [op |-> "login", presented |-> NoToken,
                            status |-> "BadCredentials", token |-> NoToken]
            /\ UNCHANGED issued
    /\ UNCHANGED <<registration_enabled, users, invites, attempt_vars, now, mail_vars>>

\* lines 212-214: refresh_jwt answers with get_login_response for the account
\* current_active_user resolved; without one the dependency raises 401.
refresh_jwt(tok, at_exp) ==
    /\ tok \in Presentable
    /\ Cardinality(issued) < MaxIssued
    /\ LET user == current_active_user(tok, at_exp) IN
       IF user # 0
       THEN LET new == generate_jwt(user, AuthAudience, JWT_TOKEN_LIFETIME) IN
            /\ issued' = issued \cup {new}
            /\ response' = [op |-> "refresh", presented |-> tok, status |-> "ok",
                            token |-> new]
       ELSE /\ response' = [op |-> "refresh", presented |-> tok,
                            status |-> "Unauthorized", token |-> NoToken]
            /\ UNCHANGED issued
    /\ UNCHANGED <<registration_enabled, users, invites, attempt_vars, now, mail_vars>>

\* line 238: the users router lets a superuser switch is_active of an account.
SetActive(id, active) ==
    /\ users[id].is_active # active
    /\ users' = [users EXCEPT ![id].is_active = active]
    /\ UNCHANGED <<registration_enabled, invites, attempt_vars, auth_vars>>

\* Time passes.
Tick ==
    /\ now < NumTicks * TickLength
    /\ now' = now + TickLength
    /\ UNCHANGED <<registration_enabled, users, invites, attempt_vars, issued, response,
                   mail_vars>>

\* Emails an invite can be addressed to: one of an account, one of nobody.
InviteEmails == {AccountEmail(1), "new@example.com"}

\* line 249 with the ledger told to accept the email of an existing account
allow_existing_lax == TRUE

\* line 249: the route always passes allow_existing=False.
allow_existing == FALSE

\* line 248: invites.invite_user: with allow_existing false the email of an
\* existing account is refused; otherwise the invite is created and sent.
InviteManager_invite_user(email, strict_off) ==
    IF ~strict_off /\ EmailTaken(email) THEN "AlreadyExists" ELSE "ok"

\* lines 240-252: POST /users/invite: current_active_user resolves the caller
\* (a 401 without one), then the ledger creates the invite in strict mode.
invite_user(tok, at_exp, email) ==
    /\ tok \in Presentable
    /\ LET user == current_active_user(tok, at_exp)
           status == IF user = 0 THEN "Unauthorized"
                     ELSE InviteManager_invite_user(email, allow_existing)
       IN /\ response' = [op |-> "invite", presented |-> tok, status |-> status,
                          token |-> NoToken, email |-> email]
          /\ invited' = IF status = "ok"
                        THEN invited \cup {[email |-> email, by |-> user]} ELSE invited
    /\ UNCHANGED <<registration_enabled, users, invites, attempt_vars, now, issued,
                   mailed, reset_done>>

AuthNext ==
    \/ \E id \in Accounts, ok \in BOOLEAN : Login(id, ok)
    \/ \E tok \in Presentable, at_exp \in BOOLEAN : refresh_jwt(tok, at_exp)
    \/ \E id \in Accounts, b \in BOOLEAN : SetActive(id, b)
    \/ Tick

SpecAuth == AuthInit /\ [][AuthNext]_vars

\* The invite route is exercised from the instant at which every account has
\* just logged in and holds its bearer token.
InviteInit ==
    /\ registration_enabled = FALSE
    /\ users = [id \in Accounts |->
                  [email |-> AccountEmail(id), name |-> AccountEmail(id),
                   is_active |-> TRUE, is_verified |-> TRUE]]
    /\ invites = [t \in InviteTokens |-> "pending"]
    /\ pc = [p \in Attempts |-> "idle"]
    /\ request = [p \in Attempts |-> NoRequest]
    /\ user_create = [p \in Attempts |-> NoRequest]
    /\ invite_found = [p \in Attempts |-> "unchecked"]
    /\ result = [p \in Attempts |-> "none"]
    /\ returned = [p \in Attempts |-> NoUser]
    /\ archive_calls = [p \in Attempts |-> <<>>]
    /\ archive_result = [p \in Attempts |-> "none"]
    /\ fulfil = [p \in Attempts |-> "none"]
    /\ log = [p \in Attempts |-> <<>>]
    /\ verify_task = [p \in Attempts |-> "none"]
    /\ now = 0
    /\ issued = {generate_jwt(id, AuthAudience, JWT_TOKEN_LIFETIME) : id \in Accounts}
    /\ response = NoResponse
    /\ mailed = {} /\ invited = {} /\ reset_done = {}

\* The invite route with the events that decide who may call it.
InviteNext ==
    \/ \E tok \in Presentable, at_exp \in BOOLEAN, email \in InviteEmails :
          invite_user(tok, at_exp, email)
    \/ \E id \in Accounts, b \in BOOLEAN : SetActive(id, b)
    \/ Tick

SpecInvite == InviteInit /\ [][InviteNext]_vars

\* ------------------------------------------------------------------ purpose tokens
\* The user store of the purpose-token specification: active accounts that
\* have not verified their email yet.
PurposeInit ==
    /\ registration_enabled = FALSE
    /\ users = [id \in Accounts |->
                  [email |-> AccountEmail(id), name |-> AccountEmail(id),
                   is_active |-> TRUE, is_verified |-> FALSE]]
    /\ invites = [t \in InviteTokens |-> "pending"]
    /\ pc = [p \in Attempts |-> "idle"]
    /\ request = [p \in Attempts |-> NoRequest]
    /\ user_create = [p \in Attempts |-> NoRequest]
    /\ invite_found = [p \in Attempts |-> "unchecked"]
    /\ result = [p \in Attempts |-> "none"]
    /\ returned = [p \in Attempts |-> NoUser]
    /\ archive_calls = [p \in Attempts |-> <<>>]
    /\ archive_result = [p \in Attempts |-> "none"]
    /\ fulfil = [p \in Attempts |-> "none"]
    /\ log = [p \in Attempts |-> <<>>]
    /\ verify_task = [p \in Attempts |-> "none"]
    /\ now = 0 /\ issued = {} /\ response = NoResponse
    /\ mailed = {} /\ invited = {} /\ reset_done = {}

\* lines 84-86 with one audience for both kinds of token
PurposeAudience_shared(purpose) == "fastapi-users:token"

\* lines 84-86: reset and verification tokens are signed with the same secret;
\* what tells them apart is the audience BaseUserManager puts in each.
PurposeAudience(purpose) ==
    IF purpose = "email_verify" THEN "fastapi-users:verify" ELSE "fastapi-users:reset"

\* lines 84-86: the account a reset or verification token names, or 0 when
\* the token does not decode for that purpose or names no account.
validate_purpose_token(tok, purpose, at_exp) ==
    IF decode_jwt(tok, PurposeAudience(purpose), at_exp) /\ tok.sub \in DOMAIN users
    THEN tok.sub ELSE 0

\* lines 161-174: request_verify and forgot_password sign a token for an
\* active account (request_verify: one not yet verified) and the callbacks
\* hand it to the email sender.
issue_purpose_token(id, purpose) ==
    /\ Cardinality(mailed) < MaxMailed
    /\ users[id].is_active
    /\ purpose = "email_verify" => ~users[id].is_verified
    /\ mailed' = mailed \cup
         {[purpose |-> purpose,
           token |-> generate_jwt(id, PurposeAudience(purpose), PurposeTokenLifetime)]}
    /\ UNCHANGED <<registration_enabled, users, invites, attempt_vars, now, issued,
                   response, invited, reset_done>>

\* Tokens a client can send to the confirm routes: the mailed ones, and ones
\* signed with another key.
PresentablePurpose ==
    {m.token : m \in mailed} \cup
    {[sub |-> a, aud |-> PurposeAudience(pp), exp |-> (NumTicks + 2) * TickLength,
      sig |-> "forged"] : a \in Accounts, pp \in Purposes}

\* lines 227-236: the verify and reset-password routes: a token that does not
\* validate for the purpose of the route is a 400 with one detail, whatever
\* the cause; a valid one marks the account verified, or replaces its password.
confirm_purpose(tok, purpose, at_exp) ==
    /\ tok \in PresentablePurpose
    /\ LET user == validate_purpose_token(tok, purpose, at_exp)
           status == IF user = 0 THEN "InvalidToken"
                     ELSE IF purpose = "email_verify" /\ users[user].is_verified
                     THEN "AlreadyVerified" ELSE "ok"
       IN /\ response' = [op |-> purpose, presented |-> tok, status |-> status,
                          token |-> NoToken]
          /\ users' = IF status = "ok" /\ purpose = "email_verify"
                      THEN [users EXCEPT ![user].is_verified = TRUE] ELSE users
          /\ reset_done' = IF status = "ok" /\ purpose = "password_reset"
                           THEN reset_done \cup {user} ELSE reset_done
    /\ UNCHANGED <<registration_enabled, invites, attempt_vars, now, issued, mailed,
                   invited>>

PurposeNext ==
    \/ \E id \in Accounts, pp \in Purposes : issue_purpose_token(id, pp)
    \/ \E tok \in PresentablePurpose, pp \in Purposes, at_exp \in BOOLEAN :
          confirm_purpose(tok, pp, at_exp)
    \/ Tick

SpecPurpose == PurposeInit /\ [][PurposeNext]_vars

\* ------------------------------------------------------------------ properties
\* create() has ended for attempt p, by a return or by an exception.
Finished(p) == pc[p] \in {"done", "failed"}

\* Attempt p has left no trace outside its own request: no account, no archive
\* call, no invite fulfilment, no email task, no account returned.
NoSideEffect(p) ==
    /\ p \notin DOMAIN users
    /\ archive_calls[p] = <<>> /\ archive_result[p] = "none"
    /\ fulfil[p] = "none" /\ log[p] = <<>>
    /\ verify_task[p] = "none"
    /\ returned[p] = NoUser

\* C1: an attempt made while open registration is disabled and carrying no
\* invite token (absent or empty) has failed with InviteRequired, and has
\* created no account and caused no archive, invite or email side effect.
C1_InviteRequired ==
    \A p \in Attempts :
        (pc[p] # "idle" /\ ~registration_enabled /\ ~Truthy(request[p].inviteToken))
            => (result[p] = "InviteRequired" /\ pc[p] = "failed" /\ NoSideEffect(p))

C1_Witness ==
    \E p \in Attempts : result[p] = "InviteRequired" /\ request[p].inviteToken = ""

\* C2: an attempt that supplied an invite token goes past line 110 only after
\* get_valid_invite was asked, with open registration enabled or disabled; if
\* the token did not resolve, the attempt has failed with InvalidInvite and has
\* touched neither the user store, the ledger, the archives nor the email.
C2_InvalidInvite ==
    \A p \in Attempts :
        /\ (Truthy(request[p].inviteToken) /\ pc[p] \notin {"idle", "validate"})
               => invite_found[p] # "unchecked"
        /\ invite_found[p] = "invalid"
               => (result[p] = "InvalidInvite" /\ pc[p] = "failed" /\ NoSideEffect(p))

C2_Witness ==
    \E p \in Attempts :
        registration_enabled /\ result[p] = "InvalidInvite" /\ invite_found[p] = "invalid"

\* C3: an attempt whose invite token resolved ends, when it returns, with the
\* account verified, and from then on the token cannot be redeemed: it does not
\* resolve and its fulfilment cannot succeed.  Such an attempt ends without a
\* return only on a duplicate email or on an exception of a collaborator.
C3_ValidInviteVerified ==
    \A p \in Attempts :
        invite_found[p] = "valid" =>
            /\ pc[p] = "done" =>
                  /\ result[p] = "ok"
                  /\ returned[p].is_verified /\ users[p].is_verified
                  /\ get_valid_invite(request[p].inviteToken) = None
                  /\ "ok" \notin handle_new_user_invite(request[p].inviteToken)
            /\ pc[p] = "failed" =>
                  \/ result[p] = "DuplicateEmail"
                  \/ result[p] = "ServerError"
                       /\ (archive_result[p] = "error" \/ fulfil[p] = "Timeout")

C3_Witness ==
    \E p \in Attempts :
        /\ pc[p] = "done" /\ request[p].inviteToken = "t1" /\ fulfil[p] = "ok"
        /\ users[p].is_verified /\ invites["t1"] = "removed"

\* C4 (state part): an attempt that failed with DuplicateEmail has no account,
\* no archive, no invite fulfilment, no verified flag and no verification email.
C4_NoSideEffects ==
    \A p \in Attempts : result[p] = "DuplicateEmail" => NoSideEffect(p)

\* C4: a Creating step on an email that is taken fails with DuplicateEmail and
\* changes neither the user store nor the invite ledger (a valid invite that was
\* supplied stays redeemable), and no post-registration side effect ever occurs.
C4_DuplicateEmail ==
    /\ []C4_NoSideEffects
    /\ [][\A p \in Attempts :
            (pc[p] = "create" /\ pc'[p] # "create" /\ EmailTaken(user_create[p].email))
               => /\ result'[p] = "DuplicateEmail"
                  /\ users' = users /\ invites' = invites]_vars

C4_Witness ==
    \E p \in Attempts :
        /\ result[p] = "DuplicateEmail" /\ invite_found[p] = "valid"
        /\ get_valid_invite(request[p].inviteToken) # None

\* C5 (as claimed): when archive provisioning has failed for an attempt, the
\* attempt still returns the created account to the caller.
C5_ArchiveFailureNotRaised ==
    \A p \in Attempts :
        (archive_result[p] = "error" /\ Finished(p))
            => (result[p] = "ok" /\ returned[p] # NoUser)

\* Fulfilments of token t that were tried, and those that succeeded.
Tried(t) == {p \in Attempts : request[p].inviteToken = t /\ fulfil[p] # "none"}
Succeeded(t) == {p \in Tried(t) : fulfil[p] = "ok"}

C7_StepsIsolated ==
    \A p \in Attempts :
        (archive_result[p] = "error" /\ Finished(p)) =>
            IF Truthy(request[p].inviteToken)
            THEN fulfil[p] # "none" /\ users[p].is_verified
            ELSE verify_task[p] # "none"

\* Attempt p has got past the Creating step.
PastCreating(p) ==
    \/ pc[p] \in {"archive", "invite", "verified", "email", "done"}
    \/ result[p] = "ServerError"

\* C8: once Creating has persisted the account of an attempt, the account is in
\* the user store, with its email, in every later state: after a failure of
\* provisioning, of fulfilment or of the email task as well.
C8_AccountPersists ==
    \A p \in Attempts :
        PastCreating(p) => (p \in DOMAIN users /\ users[p].email = request[p].email)

C8_Witness ==
    \E p \in Attempts :
        archive_result[p] = "error" /\ pc[p] = "failed" /\ p \in DOMAIN users

\* The request of C9: open registration, no invite token, blank name, a new
\* archive asked for.
Scenario9(p) ==
    /\ pc[p] # "idle" /\ registration_enabled
    /\ ~Truthy(request[p].inviteToken) /\ request[p].name = ""
    /\ request[p].newArchive

\* C9: in that scenario the account is created with its email as its name,
\* provisioning is invoked at most once and, when invoked, with
\* "<email>'s Archive", or with newArchiveName unchanged when that is not
\* blank; on return provisioning was invoked exactly once, the verification
\* email task is scheduled and the returned account is not verified.
C9_DefaultNames ==
    \A p \in Attempts :
        Scenario9(p) =>
            /\ p \in DOMAIN users =>
                  users[p].email = request[p].email /\ users[p].name = request[p].email
            /\ archive_calls[p] \in
                  {<<>>, <<IF request[p].newArchiveName = ""
                           THEN request[p].email \o "'s Archive"
                           ELSE request[p].newArchiveName>>}
            /\ PastCreating(p) /\ pc[p] # "archive" => Len(archive_calls[p]) = 1
            /\ pc[p] = "done" =>
                  /\ result[p] = "ok" /\ p \in DOMAIN users
                  /\ verify_task[p] # "none"
                  /\ returned[p] = users[p] /\ ~returned[p].is_verified

C9_Witness ==
    \E p \in Attempts :
        /\ Scenario9(p) /\ request[p].newArchiveName = "" /\ pc[p] = "done"
        /\ request[p].email = "a@example.com"
        /\ archive_calls[p] = <<"a@example.com's Archive">>
        /\ verify_task[p] = "sent" /\ ~returned[p].is_verified

\* The presented token is valid at the present instant: signed with the
\* secret, a bearer token, and not past its expiry.
ValidBearer(tok) == tok.sig = PASSWORD_SECRET /\ tok.aud = AuthAudience /\ now <= tok.exp
ExpiredOrInvalid(tok) == tok.sig # PASSWORD_SECRET \/ tok.aud # AuthAudience \/ now > tok.exp

\* C10: a refresh request issues a token only for a presented bearer token that
\* is valid at that instant and names an active account; the new token is for
\* the same account and expires one lifetime later.  A request with an invalid
\* or expired token, or for a deactivated account, is answered Unauthorized
\* and issues nothing.
C10_Refresh ==
    [][(response' # response /\ response'.op = "refresh") =>
          LET tok == response'.presented IN
          /\ response'.status \in {"ok", "Unauthorized"}
          /\ response'.status = "ok" =>
                /\ ValidBearer(tok) /\ users[tok.sub].is_active
                /\ response'.token.sub = tok.sub
                /\ response'.token.exp = now + JWT_TOKEN_LIFETIME
                /\ ValidBearer(response'.token)
                /\ issued' = issued \cup {response'.token}
          /\ (ExpiredOrInvalid(tok) \/ ~users[tok.sub].is_active) =>
                /\ response'.status = "Unauthorized"
                /\ response'.token = NoToken /\ issued' = issued]_vars

C10_Witness ==
    /\ response.op = "refresh" /\ response.status = "ok"
    /\ response.token.sub = response.presented.sub
    /\ response.token.exp > response.presented.exp

\* Bearer tokens among the tokens the service has signed.
Bearers == {tok \in issued : tok.aud = AuthAudience}

\* C11: a bearer token is issued with expiry = the instant of issue + the
\* configured lifetime (for a login and for a refresh alike, a refresh keeping
\* the account); at every instant before its expiry validation returns the
\* account it was issued for, at every instant after it validation fails.
C11_BearerLifetime ==
    /\ [](\A tok \in Bearers, at_exp \in BOOLEAN :
            /\ tok.sub \in Accounts
            /\ tok.exp <= now + JWT_TOKEN_LIFETIME
            /\ now < tok.exp => validate_bearer(tok, at_exp) = tok.sub
            /\ now > tok.exp => validate_bearer(tok, at_exp) = 0)
    /\ [][\A tok \in issued' \ issued :
            /\ tok = response'.token
            /\ tok.exp = now + JWT_TOKEN_LIFETIME
            /\ tok.sig = PASSWORD_SECRET /\ tok.aud = AuthAudience
            /\ response'.op = "refresh" => tok.sub = response'.presented.sub]_vars

C11_Witness ==
    /\ response.op = "refresh" /\ response.status = "ok"
    /\ now > response.presented.exp
    /\ validate_bearer(response.presented, TRUE) = 0
    /\ now < response.token.exp
    /\ validate_bearer(response.token, FALSE) = response.token.sub

\* The purposes token tok was mailed for.
MailedFor(tok) == {m.purpose : m \in {x \in mailed : x.token = tok}}

\* C12: a confirm request succeeds only with a token that was mailed for the
\* purpose of the route and is not past its expiry, and acts on the account the
\* token was issued for; before its expiry such a token is accepted (a
\* verification token: unless the account is verified already).  A token mailed
\* for the other purpose is refused, with the same InvalidToken answer as an
\* expired token or one signed with another key.
C12_PurposeScoped ==
    [][(response' # response /\ response'.op \in Purposes) =>
          LET tok == response'.presented
              purpose == response'.op
              other == CHOOSE q \in Purposes : q # purpose
          IN
          /\ response'.status = "ok" =>
                /\ purpose \in MailedFor(tok) /\ now <= tok.exp
                /\ IF purpose = "email_verify"
                   THEN users'[tok.sub].is_verified /\ reset_done' = reset_done
                   ELSE reset_done' = reset_done \cup {tok.sub} /\ users' = users
          /\ (purpose \in MailedFor(tok) /\ now < tok.exp) =>
                response'.status \in
                   IF purpose = "email_verify" /\ users[tok.sub].is_verified
                   THEN {"AlreadyVerified"} ELSE {"ok"}
          /\ (other \in MailedFor(tok) \/ tok.sig # PASSWORD_SECRET \/ now > tok.exp) =>
                /\ response'.status = "InvalidToken"
                /\ users' = users /\ reset_done' = reset_done]_vars

C12_Witness ==
    /\ response.op = "password_reset" /\ response.status = "InvalidToken"
    /\ MailedFor(response.presented) = {"email_verify"}
    /\ now < response.presented.exp
    /\ validate_purpose_token(response.presented, "email_verify", FALSE)
         = response.presented.sub

\* C13: POST /invite creates an invite record only for a caller whose bearer
\* token is valid and names an active account, and only for an email no
\* account has; for the email of an existing account such a caller is answered
\* AlreadyExists, and every answer other than success leaves the invites as
\* they were.
C13_InviteStrict ==
    [][/\ invited' # invited =>
            /\ response'.op = "invite" /\ response'.status = "ok"
            /\ response'.presented \in Bearers
            /\ now <= response'.presented.exp
            /\ users[response'.presented.sub].is_active
            /\ ~EmailTaken(response'.email)
            /\ invited' = invited \cup
                 {[email |-> response'.email, by |-> response'.presented.sub]}
       /\ (response' # response /\ response'.op = "invite") =>
            /\ response'.status # "ok" => invited' = invited
            /\ (/\ EmailTaken(response'.email)
                /\ response'.presented \in Bearers
                /\ now < response'.presented.exp
                /\ users[response'.presented.sub].is_active)
                 => response'.status = "AlreadyExists"]_vars

C13_Witness ==
    /\ response.op = "invite" /\ response.status = "AlreadyExists"
    /\ EmailTaken(response.email)
    /\ current_active_user(response.presented, FALSE) # 0
    /\ \A i \in invited : i.email # response.email

\* Attempt p has started step (b) or step (c).
StepBCStarted(p) ==
    \/ pc[p] \in {"invite", "verified", "email"}
    \/ fulfil[p] # "none"
    \/ verify_task[p] # "none"
    \/ p \in DOMAIN users /\ users[p].is_verified

\* C14: within one attempt the account is created before the archive is
\* provisioned, and the archive step (when the request asks for one) has
\* succeeded before invite fulfilment, the verified update or the scheduling
\* of the verification email begins; the verified update comes after the
\* fulfilment call.  Nothing orders the steps of two different attempts.
C14_StepOrder ==
    \A p \in Attempts :
        /\ (archive_result[p] # "none" \/ pc[p] = "archive" \/ StepBCStarted(p))
              => p \in DOMAIN users
        /\ StepBCStarted(p) =>
              /\ user_create[p].newArchive => archive_result[p] = "ok"
              /\ ~user_create[p].newArchive => archive_result[p] = "none"
        /\ pc[p] \in {"idle", "validate", "create", "archive"} => ~StepBCStarted(p)
        /\ (p \in DOMAIN users /\ users[p].is_verified) => fulfil[p] # "none"
        /\ Len(archive_calls[p]) <= 1

C14_Witness ==
    /\ pc[1] = "archive" /\ 1 \in DOMAIN users
    /\ pc[2] = "done" /\ archive_result[2] = "ok" /\ fulfil[2] = "ok"
    /\ users[2].is_verified

\* Attempts p and q presented the same invite token, both found it valid, and
\* q consumed it before p tried to.
LostRace(p, q) ==
    /\ p # q
    /\ Truthy(request[p].inviteToken)
    /\ request[p].inviteToken = request[q].inviteToken
    /\ invite_found[p] = "valid" /\ invite_found[q] = "valid"
    /\ fulfil[q] = "ok" /\ fulfil[p] = "InvalidInvite"

\* C15: when two attempts present the same valid invite token and both pass
\* validation, the attempt that finds the invite consumed is not failed by it:
\* the failure is printed to the log, no error is raised to either caller,
\* both accounts exist, and each attempt that has completed returned its account.
C15_LostRaceNotFatal ==
    \A p, q \in Attempts :
        LostRace(p, q) =>
            /\ pc[p] \in {"verified", "done"} /\ pc[q] \in {"verified", "done"}
            /\ result[p] \in {"none", "ok"} /\ result[q] \in {"none", "ok"}
            /\ log[p] = <<"InvalidInvite">> /\ log[q] = <<>>
            /\ {p, q} \subseteq DOMAIN users
            /\ \A r \in {p, q} :
                  pc[r] = "done" => result[r] = "ok" /\ returned[r] = users[r]

C15_Witness ==
    \E p, q \in Attempts :
        /\ LostRace(p, q)
        /\ pc[p] = "done" /\ pc[q] = "done"
        /\ returned[p] = users[p] /\ returned[q] = users[q]
        /\ returned[p].email # returned[q].email
        /\ log[p] = <<"InvalidInvite">>

\* C16 (as claimed): whatever failure ends the fulfilment call of an attempt,
\* it is printed to the log and the attempt is not failed by it.
C16_FulfilmentSwallowed ==
    \A p \in Attempts :
        fulfil[p] \notin {"none", "ok"} =>
            /\ log[p] = <<fulfil[p]>>
            /\ result[p] \in {"none", "ok"}
            /\ pc[p] \in {"verified", "done"}

\* C17 (as claimed): when create() has ended for an attempt that supplied an
\* invite token and created its account, the account is verified.
C17_InvitedVerified ==
    \A p \in Attempts :
        (Truthy(request[p].inviteToken) /\ p \in DOMAIN users /\ Finished(p))
            => users[p].is_verified

\* The account attempt p creates, as create() stores it.
CreatedAccount(p) ==
    [email |-> user_create[p].email, name |-> user_create[p].name,
     is_active |-> TRUE, is_verified |-> FALSE]

\* C18: once the verification email task of an attempt exists, the attempt has
\* completed and returned its account, whether the task is still waiting, has
\* sent the email or has failed; the task changes neither the result nor the
\* account.
C18_FireAndForget ==
    \A p \in Attempts :
        verify_task[p] # "none" =>
            /\ pc[p] = "done" /\ result[p] = "ok"
            /\ p \in DOMAIN users
            /\ users[p] = CreatedAccount(p)
            /\ returned[p] = CreatedAccount(p)

C18_Witness ==
    \E p, q \in Attempts :
        /\ verify_task[p] = "failed" /\ pc[p] = "done" /\ result[p] = "ok"
        /\ returned[p] = users[p]
        /\ verify_task[q] = "scheduled" /\ pc[q] = "done" /\ result[q] = "ok"

\* C19: an attempt schedules the verification email only when its request has
\* no invite token, and fulfils an invite or sets the verified flag only when
\* it has one; no attempt does both, and an attempt that completed did the one
\* its request calls for.
C19_ExclusiveSteps ==
    \A p \in Attempts :
        LET invited_attempt == Truthy(user_create[p].inviteToken)
            step_b == \/ fulfil[p] # "none" \/ pc[p] \in {"invite", "verified"}
                      \/ (p \in DOMAIN users /\ users[p].is_verified)
            step_c == verify_task[p] # "none" \/ pc[p] = "email"
        IN /\ step_c => ~invited_attempt
           /\ step_b => invited_attempt
           /\ ~(step_b /\ step_c)
           /\ pc[p] = "done" =>
                /\ verify_task[p] # "none" <=> ~invited_attempt
                /\ (fulfil[p] # "none" /\ users[p].is_verified) <=> invited_attempt

C19_Witness ==
    \E p, q \in Attempts :
        /\ pc[p] = "done" /\ Truthy(request[p].inviteToken)
        /\ fulfil[p] # "none" /\ users[p].is_verified /\ verify_task[p] = "none"
        /\ pc[q] = "done" /\ ~Truthy(request[q].inviteToken)
        /\ verify_task[q] # "none" /\ fulfil[q] = "none" /\ ~users[q].is_verified

\* C20: while open registration is disabled, every account in the user store
\* belongs to an attempt that supplied an invite token which the validation
\* step of that attempt found valid.
C20_ClosedNeedsInvite ==
    ~registration_enabled =>
        \A p \in DOMAIN users :
            /\ p \in Attempts
            /\ Truthy(request[p].inviteToken)
            /\ invite_found[p] = "valid"
            /\ InviteScope[request[p].inviteToken] = "new_account"

C20_Witness ==
    /\ ~registration_enabled
    /\ \E p, q \in Attempts :
          /\ p \in DOMAIN users /\ pc[p] = "done" /\ invite_found[p] = "valid"
          /\ q \notin DOMAIN users /\ result[q] = "InviteRequired"
====
